---- MODULE Spec2Model ----
(***************************************************************************)
(* Booking lifecycle and offer allocation engine of brm-calum/brmdev.      *)
(*                                                                         *)
(* The model follows the database-side procedures and triggers of the      *)
(* repository: one inquiry (booking_inquiries row) owned by one trader,    *)
(* the offers made against it (booking_offers rows with their              *)
(* booking_offer_spaces / booking_offer_services children and their        *)
(* offer_summaries row), the bookings table and the notifications table.   *)
(* Every RPC runs in one transaction: a raised exception rolls back every  *)
(* write of the call, so a failed call leaves the tables as they were.     *)
(***************************************************************************)
EXTENDS Integers, Sequences, FiniteSets, Bags, TLC

VARIABLES
  now,            \* CURRENT_TIMESTAMP / now(), in days
  inquiry,        \* the booking_inquiries row
  offers,         \* booking_offers rows (index = offer id) with children
  bookings,       \* bookings rows, as a sequence of records
  notifications,  \* notifications rows, as a bag of records
  last,           \* the last call: operation, caller, arguments and outcome
  inflight        \* the transactions that have begun and not yet ended, by session

vars == <<now, inquiry, offers, bookings, notifications, last, inflight>>

-----------------------------------------------------------------------------
(* Bounds of the model *)

MaxTime == 1            \* the clock runs over 0..MaxTime
MaxNotifications == 4   \* status changes are made while fewer rows are in notifications

(* Program constants *)

ValidDays == 7          \* interval '7 days'

-----------------------------------------------------------------------------
(* SQL NULL: a nullable column holds {} (NULL) or {v} *)

NULL == {}
Some(v) == {v}
IsNull(x) == x = {}
Val(x) == CHOOSE v \in x : TRUE

-----------------------------------------------------------------------------
(* Users and roles *)

Admins == {"admin"}
Traders == {"trader", "other"}
Users == Admins \cup Traders
OwnerTrader == "trader"

\* A variant that asks for a role row without asking which role it is
IsAdministrator_any_role(u) == u \in Users

\* EXISTS (SELECT 1 FROM user_roles ur JOIN roles r ... r.name = 'administrator')
IsAdministrator(u) == u \in Admins

-----------------------------------------------------------------------------
(* The unified status enum *)

Statuses ==
  {"draft", "submitted", "under_review", "offer_draft", "offer_sent",
   "changes_requested", "accepted", "rejected", "cancelled", "expired",
   "confirmed", "completed", "archived"}

\* A variant that forgets the role: a move is allowed when either role may make it
validate_status_transition_any_role(old_status, new_status, is_admin) ==
  \/ old_status = new_status
  \/ old_status = "draft" /\ new_status \in {"submitted", "cancelled"}
  \/ old_status = "submitted" /\ new_status \in {"under_review", "cancelled"}
  \/ old_status = "under_review" /\ new_status \in {"offer_draft", "cancelled"}
  \/ old_status = "offer_draft" /\ new_status \in {"offer_sent", "cancelled"}
  \/ old_status = "offer_sent"
       /\ new_status \in {"accepted", "rejected", "changes_requested"}
  \/ old_status = "changes_requested" /\ new_status \in {"offer_draft", "cancelled"}
  \/ old_status = "accepted" /\ new_status \in {"confirmed", "cancelled"}
  \/ old_status = "confirmed" /\ new_status \in {"completed", "cancelled"}
  \/ old_status = "completed" /\ new_status = "archived"

\* A variant that lets every move through
validate_status_transition_unchecked(old_status, new_status, is_admin) == TRUE

validate_status_transition(old_status, new_status, is_admin) ==
  IF old_status = new_status THEN TRUE
  ELSE IF is_admin THEN
    CASE old_status = "submitted" -> new_status \in {"under_review", "cancelled"}
      [] old_status = "under_review" -> new_status \in {"offer_draft", "cancelled"}
      [] old_status = "offer_draft" -> new_status \in {"offer_sent", "cancelled"}
      [] old_status = "changes_requested" -> new_status \in {"offer_draft", "cancelled"}
      [] old_status = "accepted" -> new_status \in {"confirmed", "cancelled"}
      [] old_status = "confirmed" -> new_status \in {"completed", "cancelled"}
      [] old_status = "completed" -> new_status = "archived"
      [] OTHER -> FALSE
  ELSE
    CASE old_status = "draft" -> new_status \in {"submitted", "cancelled"}
      [] old_status = "offer_sent" ->
           new_status \in {"accepted", "rejected", "changes_requested"}
      [] OTHER -> FALSE

-----------------------------------------------------------------------------
(* Rows and call arguments *)

OfferIds == {"o1"}

\* booking_inquiry_space_requests.size_m2 of the inquiry
SpaceRequests == <<2>>

\* m_warehouse_spaces.id and warehouse_services.id of the catalogue
KnownSpaces == {"space1", "space2"}
KnownServices == {"service1"}

\* start_date and end_date of the inquiry, as day numbers
InquiryDates == [start_date |-> 1, end_date |-> 10]

\* price_per_m2_cents of the matching space of the warehouse
ListPrice == [price_per_m2_cents |-> 500]

\* loadInquiry: the days of the inquiry, start and end day both counted
DurationDays(start_date, end_date) == (end_date - start_date) + 1

\* the total of a line priced from the list:
\* list_price_per_m2_cents * allocated_size_m2 * duration_days
ListPriceTotal(price_per_m2_cents, size_m2, duration_days) ==
  price_per_m2_cents * size_m2 * duration_days

\* a space line as handleSubmit sends it: the list price of the space, the
\* offer total of the form, and no is_manual_price (stored as false)
SpaceRow(size, total) ==
  [space_id |-> Some("space1"), space_allocated_m2 |-> size,
   price_per_m2_cents |-> ListPrice.price_per_m2_cents,
   offer_total_cents |-> total, is_manual_price |-> FALSE]

\* space_type_id of the spaces, and of the space request of the inquiry
SpaceTypeOf == [space1 |-> "type1", space2 |-> "type2"]
RequestedSpaceType == "type1"

\* a line of the call for another space
InSpace(row, id) == [row EXCEPT !.space_id = Some(id)]

\* a line of the call without its space_id / service_id
WithoutSpaceId(row) == [row EXCEPT !.space_id = NULL]
WithoutServiceId(row) == [row EXCEPT !.service_id = NULL]

ServiceRow(type, hour, unit, label, fixed, total) ==
  [service_id |-> Some("service1"),
   pricing_type |-> type, price_per_hour_cents |-> hour,
   price_per_unit_cents |-> unit, unit_type |-> label,
   fixed_price_cents |-> fixed, offer_total_cents |-> total]

DraftInput(total, spaces, services) ==
  [p_total_cost_cents |-> total, p_spaces |-> spaces, p_services |-> services]

\* p_total_cost_cents, p_spaces and p_services of save_booking_offer /
\* update_booking_offer: allocations that fall short of, meet and exceed the
\* request, a negative size, no allocation, no headline figure, and a
\* service line of each kind
DraftInputs ==
  { DraftInput(9, <<SpaceRow(1, 3)>>, <<>>),
    DraftInput(9, <<SpaceRow(1, 3), SpaceRow(1, 3)>>, <<>>),
    DraftInput(9, <<SpaceRow(3, 9)>>, <<>>),
    DraftInput(9, <<SpaceRow(2, 6), SpaceRow(-1, 0)>>, <<>>),
    DraftInput(9, <<>>, <<>>),
    DraftInput(0, <<SpaceRow(1, 3), SpaceRow(1, 3)>>, <<>>),
    DraftInput(9, <<SpaceRow(1, 3), SpaceRow(1, 3)>>,
               <<ServiceRow("hourly_rate", Some(0), NULL, NULL, NULL, 0)>>),
    DraftInput(9, <<SpaceRow(1, 3), SpaceRow(1, 3)>>,
               <<ServiceRow("fixed", NULL, NULL, NULL, Some(5), 5)>>),
    DraftInput(9, <<SpaceRow(1, 3), SpaceRow(1, 3)>>,
               <<ServiceRow("ask_quote", NULL, NULL, NULL, NULL, 4)>>),
    DraftInput(9, <<SpaceRow(100, 500000)>>, <<>>),
    DraftInput(9, <<SpaceRow(1, 3), SpaceRow(1, 3)>>,
               <<ServiceRow("per_unit", NULL, Some(2), NULL, NULL, 2)>>),
    DraftInput(9, <<SpaceRow(3, 9), WithoutSpaceId(SpaceRow(1, 3))>>, <<>>),
    DraftInput(9, <<InSpace(SpaceRow(3, 9), "space2")>>, <<>>),
    DraftInput(9, <<SpaceRow(3, 9), InSpace(SpaceRow(1, 3), "space0")>>, <<>>),
    DraftInput(9, <<SpaceRow(3, 9)>>,
               <<WithoutServiceId(ServiceRow("fixed", NULL, NULL, NULL, Some(5), 5))>>) }

TotalCostInputs == {0, 9}     \* p_total_cost_cents of create_booking_offer
ValidUntilInputs == {0}       \* p_valid_until: the offer is valid until day 0

Actions == {"accept", "reject", "withdraw"}   \* p_action of respond_to_offer

NoOffer ==
  [exists |-> FALSE, status |-> "draft", valid_until |-> 0,
   total_cost_cents |-> 0, spaces |-> <<>>, services |-> <<>>,
   summary |-> {}]

RECURSIVE SumSeq(_)
SumSeq(xs) == IF xs = <<>> THEN 0 ELSE Head(xs) + SumSeq(Tail(xs))

\* SUM(offer_total_cents) over the rows of one call
RowTotals(rows) == SumSeq([i \in 1..Len(rows) |-> rows[i].offer_total_cents])

\* The tables a call reads and writes
Tables == [inquiry |-> inquiry, offers |-> offers, bookings |-> bookings,
           notifications |-> notifications]

Fail(db, message) == [result |-> message, db |-> db]

-----------------------------------------------------------------------------
(* Triggers on booking_inquiries *)

\* BEFORE UPDATE OF status: the row to write, or the exception
handle_status_transition(old, new_status, u, t) ==
  LET v_is_admin == IsAdministrator(u) IN
  IF ~validate_status_transition(old.status, new_status, v_is_admin)
  THEN [ok |-> FALSE, row |-> old]
  ELSE [ok |-> TRUE,
        row |-> [old EXCEPT
                   !.status = new_status,
                   !.valid_until =
                      CASE new_status = "offer_sent" -> Some(t + ValidDays)
                        [] new_status = "expired" -> NULL
                        [] OTHER -> @]]

Notify(recipients, type) == SetToBag({[user_id |-> r, type |-> type] : r \in recipients})

\* AFTER UPDATE OF status (status_notification_trigger): rows inserted
handle_status_notification(new) ==
  CASE new.status = "submitted" -> Notify(Admins, "inquiry_submitted")
    [] new.status = "offer_sent" -> Notify({new.trader_id}, "offer_sent")
    [] new.status = "changes_requested" -> Notify(Admins, "changes_requested")
    [] new.status = "accepted" -> Notify(Admins, "offer_accepted")
    [] OTHER -> EmptyBag

\* rows inserted for one inquiry and its new status
create_status_notification(inq, p_new_status) ==
  CASE p_new_status = "submitted" -> Notify(Admins, "inquiry_submitted")
    [] p_new_status = "under_review" -> Notify({inq.trader_id}, "inquiry_under_review")
    [] p_new_status = "offer_sent" -> Notify({inq.trader_id}, "offer_sent")
    [] p_new_status = "changes_requested" -> Notify(Admins, "changes_requested")
    [] p_new_status = "accepted" -> Notify(Admins, "inquiry_accepted")
    [] p_new_status = "rejected" -> Notify(Admins, "inquiry_rejected")
    [] OTHER -> EmptyBag

\* AFTER UPDATE OF status (inquiry_status_notification_trigger): rows inserted
handle_inquiry_status_notification(old, new) ==
  IF new.status # old.status
  THEN create_status_notification(new, new.status)
  ELSE EmptyBag

\* the values of the enum notification_type, the type of notifications.type
NotificationTypes ==
  {"inquiry_submitted", "inquiry_under_review", "offer_draft", "offer_sent",
   "changes_requested", "inquiry_accepted", "inquiry_rejected",
   "inquiry_cancelled", "inquiry_expired", "booking_confirmed",
   "booking_completed"}

InvalidNotificationType == "invalid input value for enum notification_type"

\* INSERT INTO notifications raises for a type that is no value of the enum
InsertFails(rows) == \E row \in BagToSet(rows) : row.type \notin NotificationTypes

\* UPDATE booking_inquiries SET status = new_status WHERE id = <the inquiry>,
\* with its triggers; error is the raised exception, if any. No trigger
\* catches an exception, so one raised by an AFTER trigger's INSERT undoes
\* the update of the row as well
UpdateInquiryRow(db, u, new_status, t) ==
  LET old == db.inquiry
      r == handle_status_transition(old, new_status, u, t)
      inserted == handle_status_notification(r.row)
                    (+) handle_inquiry_status_notification(old, r.row)
  IN IF ~r.ok
     THEN [error |-> Some("Invalid status transition"), db |-> db]
     ELSE IF InsertFails(inserted)
     THEN [error |-> Some(InvalidNotificationType), db |-> db]
     ELSE [error |-> NULL,
           db |-> [db EXCEPT !.inquiry = r.row,
                             !.notifications = @ (+) inserted]]

-----------------------------------------------------------------------------
(* Bookkeeping shared by the actions *)

\* the end of a call: its outcome is committed (or rolled back) and returned
Returned(op, u, o, arg, out) ==
  /\ inquiry' = out.db.inquiry
  /\ offers' = out.db.offers
  /\ bookings' = out.db.bookings
  /\ notifications' = out.db.notifications
  /\ last' = [op |-> op, user |-> u, offer |-> o, arg |-> arg,
              result |-> out.result]
  /\ UNCHANGED now

\* a call that runs from its first statement to its commit with no statement
\* of another session in between
Called(op, u, o, arg, out) ==
  /\ Returned(op, u, o, arg, out)
  /\ UNCHANGED inflight

\* Status changes are made while the notifications table is small
MayNotify == BagCardinality(notifications) < MaxNotifications

-----------------------------------------------------------------------------
(* A user updates the status column of the inquiry directly *)

update_inquiry_status(db, u, new_status, t) ==
  LET r == UpdateInquiryRow(db, u, new_status, t) IN
  IF ~IsNull(r.error) THEN Fail(db, Val(r.error))
  ELSE [result |-> "ok", db |-> r.db]

UpdateInquiryStatus ==
  /\ MayNotify
  /\ \E u \in Users, new_status \in Statuses :
       Called("update_inquiry_status", u, "none", new_status,
              update_inquiry_status(Tables, u, new_status, now))

-----------------------------------------------------------------------------
(* Creating and replacing draft offers *)

NULLIF0(x) == IF x = Some(0) THEN NULL ELSE x

\* a booking_offer_services row as save/update_booking_offer insert it
StoredService(v) ==
  [v EXCEPT !.price_per_hour_cents = NULLIF0(@),
            !.price_per_unit_cents = NULLIF0(@),
            !.fixed_price_cents = NULLIF0(@)]

StoredServices(p_services) ==
  [i \in 1..Len(p_services) |-> StoredService(p_services[i])]

Summary(calculated, actual, space_total, services_total) ==
  [calculated_price_cents |-> calculated, actual_offer_cents |-> actual,
   space_total_cents |-> space_total, services_total_cents |-> services_total]

\* A variant in which the rows written before the exception stay written
Abort_keeping_writes(db, written, message) == [result |-> message, db |-> written]

\* RAISE EXCEPTION in the middle of a call: the transaction of the call, with
\* all it has written so far, is rolled back
Abort(db, written, message) == Fail(db, message)

\* The index of the first line that raises (errors[i] is the exception of
\* line i, or NULL), 0 when no line does
FirstBad(errors) ==
  LET bad == {i \in 1..Len(errors) : ~IsNull(errors[i])}
  IN IF bad = {} THEN 0 ELSE CHOOSE i \in bad : \A j \in bad : i <= j

\* the checks save_booking_offer makes of one line
ForeignKeyViolation ==
  "violates foreign key constraint booking_offer_spaces_space_id_fkey"

\* the INSERT of the line raises when space_id is no m_warehouse_spaces.id
SaveSpaceError(v) ==
  CASE IsNull(v.space_id) -> Some("space_id is required for space allocations")
    [] ~IsNull(v.space_id) /\ Val(v.space_id) \notin KnownSpaces ->
         Some(ForeignKeyViolation)
    [] OTHER -> NULL

SaveServiceError(v) ==
  IF IsNull(v.service_id)
  THEN Some("service_id is required for service allocations") ELSE NULL

save_booking_offer(db, u, o, p_total_cost_cents, p_valid_until, p_spaces, p_services) ==
  IF ~IsAdministrator(u) THEN Fail(db, "Permission denied")
  ELSE
    LET v_space_total == RowTotals(p_spaces)
        v_services_total == RowTotals(p_services)
        space_errors == [i \in 1..Len(p_spaces) |-> SaveSpaceError(p_spaces[i])]
        service_errors ==
          [i \in 1..Len(p_services) |-> SaveServiceError(p_services[i])]
        ks == FirstBad(space_errors)
        kv == FirstBad(service_errors)
        header == [exists |-> TRUE, status |-> "draft",
                   valid_until |-> p_valid_until,
                   total_cost_cents |-> p_total_cost_cents,
                   spaces |-> <<>>, services |-> <<>>, summary |-> {}]
        row == [header EXCEPT
                  !.spaces = p_spaces,
                  !.services = StoredServices(p_services),
                  !.summary = {Summary(v_space_total + v_services_total,
                                       Some(p_total_cost_cents),
                                       v_space_total, v_services_total)}]
    IN CASE ks > 0 ->
              Abort(db,
                    [db EXCEPT !.offers[o] =
                       [header EXCEPT !.spaces = SubSeq(p_spaces, 1, ks - 1)]],
                    Val(space_errors[ks]))
         [] ks = 0 /\ kv > 0 ->
              Abort(db,
                    [db EXCEPT !.offers[o] =
                       [header EXCEPT
                          !.spaces = p_spaces,
                          !.services = StoredServices(SubSeq(p_services, 1, kv - 1))]],
                    Val(service_errors[kv]))
         [] OTHER -> [result |-> o, db |-> [db EXCEPT !.offers[o] = row]]

SaveBookingOffer ==
  \E u \in Users, o \in OfferIds, v \in ValidUntilInputs, d \in DraftInputs :
    /\ ~offers[o].exists
    /\ Called("save_booking_offer", u, o, "none",
              save_booking_offer(Tables, u, o, d.p_total_cost_cents, v,
                                 d.p_spaces, d.p_services))

\* save_offer_allocations as create_booking_offer calls it and as an RPC
save_offer_allocations(db, u, o) ==
  IF ~IsAdministrator(u) THEN Fail(db, "Permission denied")
  ELSE
    LET v_offer_status == db.offers[o].status
        v_space_total == 0
        v_services_total == 0
        updated(os) ==
          Summary(v_space_total + v_services_total,
                  IF v_offer_status = "draft" THEN NULL
                  ELSE Some(v_space_total + v_services_total),
                  v_space_total, v_services_total)
    IN [result |-> o,
        db |-> [db EXCEPT !.offers[o].summary = {updated(os) : os \in @}]]

SaveOfferAllocations ==
  \E u \in Users, o \in OfferIds :
    /\ offers[o].exists
    /\ Called("save_offer_allocations", u, o, "none",
              save_offer_allocations(Tables, u, o))

create_booking_offer(db, u, o, p_total_cost_cents, p_valid_until, with_allocations) ==
  IF ~IsAdministrator(u) THEN Fail(db, "Permission denied")
  ELSE
    LET row == [exists |-> TRUE, status |-> "draft",
                valid_until |-> p_valid_until,
                total_cost_cents |-> p_total_cost_cents,
                spaces |-> <<>>, services |-> <<>>,
                summary |-> {Summary(0, NULL, 0, 0)}]
        created == [db EXCEPT !.offers[o] = row]
    IN [result |-> o,
        db |-> IF with_allocations
               THEN save_offer_allocations(created, u, o).db
               ELSE created]

CreateBookingOffer ==
  \E u \in Users, o \in OfferIds, c \in TotalCostInputs, v \in ValidUntilInputs,
     w \in BOOLEAN :
    /\ ~offers[o].exists
    /\ Called("create_booking_offer", u, o, "none",
              create_booking_offer(Tables, u, o, c, v, w))

\* A variant that inserts the new lines without deleting the old ones
ReplacedRows_appended(old_rows, new_rows) == old_rows \o new_rows

\* DELETE FROM ... WHERE offer_id = p_offer_id, then the INSERTs of the loop
ReplacedRows(old_rows, new_rows) == new_rows

\* the checks update_booking_offer makes of one line
UpdateSpaceError(v) ==
  CASE IsNull(v.space_id) -> Some("space_id is required for space allocations")
    [] ~IsNull(v.space_id) /\ Val(v.space_id) \notin KnownSpaces ->
         Some("Space with ID does not exist")
    [] OTHER -> NULL

UpdateServiceError(v) ==
  CASE IsNull(v.service_id) -> Some("service_id is required for service allocations")
    [] ~IsNull(v.service_id) /\ Val(v.service_id) \notin KnownServices ->
         Some("Service with ID does not exist")
    [] OTHER -> NULL

update_booking_offer(db, u, o, p_total_cost_cents, p_valid_until, p_spaces, p_services) ==
  IF ~IsAdministrator(u) THEN Fail(db, "Permission denied")
  ELSE
    LET v_space_total == RowTotals(p_spaces)
        v_services_total == RowTotals(p_services)
        space_errors == [i \in 1..Len(p_spaces) |-> UpdateSpaceError(p_spaces[i])]
        service_errors ==
          [i \in 1..Len(p_services) |-> UpdateServiceError(p_services[i])]
        ks == FirstBad(space_errors)
        kv == FirstBad(service_errors)
        old == db.offers[o]
        header == [old EXCEPT !.total_cost_cents = p_total_cost_cents,
                              !.valid_until = p_valid_until]
        summary == Summary(v_space_total + v_services_total,
                           Some(p_total_cost_cents),
                           v_space_total, v_services_total)
    IN CASE ks > 0 ->
              Abort(db,
                    [db EXCEPT !.offers[o] =
                       [header EXCEPT
                          !.spaces = ReplacedRows(old.spaces, SubSeq(p_spaces, 1, ks - 1)),
                          !.services = <<>>]],
                    Val(space_errors[ks]))
         [] ks = 0 /\ kv > 0 ->
              Abort(db,
                    [db EXCEPT !.offers[o] =
                       [header EXCEPT
                          !.spaces = ReplacedRows(old.spaces, p_spaces),
                          !.services =
                             ReplacedRows(old.services,
                                          StoredServices(SubSeq(p_services, 1, kv - 1)))]],
                    Val(service_errors[kv]))
         [] OTHER ->
              [result |-> "true",
               db |-> [db EXCEPT !.offers[o] =
                         [header EXCEPT
                            !.spaces = ReplacedRows(old.spaces, p_spaces),
                            !.services = ReplacedRows(old.services,
                                                      StoredServices(p_services)),
                            !.summary = {summary}]]]

UpdateBookingOffer ==
  \E u \in Users, o \in OfferIds, v \in ValidUntilInputs, d \in DraftInputs :
    /\ offers[o].exists
    /\ Called("update_booking_offer", u, o, "none",
              update_booking_offer(Tables, u, o, d.p_total_cost_cents, v,
                                   d.p_spaces, d.p_services))

-----------------------------------------------------------------------------
(* Triggers on booking_offers *)

\* BEFORE UPDATE, WHEN (OLD.status <> 'offer_sent' AND NEW.status = 'offer_sent'):
\* TRUE when the trigger lets the row through
\* A variant that asks only for the summary row, not for its actual figure
validate_offer_before_send_row_only(old, new) ==
  IF old.status # "offer_sent" /\ new.status = "offer_sent"
  THEN new.summary # {}
  ELSE TRUE

validate_offer_before_send(old, new) ==
  IF old.status # "offer_sent" /\ new.status = "offer_sent"
  THEN \E os \in new.summary : ~IsNull(os.actual_offer_cents)
  ELSE TRUE

\* AFTER UPDATE OF status: the inquiry follows the offer
update_inquiry_status_on_offer(db, u, old, new, t) ==
  CASE new.status = "offer_sent" /\ old.status = "draft" ->
         UpdateInquiryRow(db, u, "offer_sent", t)
    [] new.status = "accepted" /\ old.status = "offer_sent" ->
         UpdateInquiryRow(db, u, "accepted", t)
    [] new.status = "rejected" /\ old.status = "offer_sent" ->
         UpdateInquiryRow(db, u, "offer_draft", t)
    [] OTHER -> [error |-> NULL, db |-> db]

\* UPDATE booking_offers SET status = new_status WHERE id = o, with its triggers
UpdateOfferRow(db, u, o, new_status, t) ==
  LET old == db.offers[o]
      new == [old EXCEPT !.status = new_status]
  IN IF ~validate_offer_before_send(old, new)
     THEN [error |-> Some("Cannot send offer: actual_offer_cents must be set"),
           db |-> db]
     ELSE LET r == update_inquiry_status_on_offer(
                     [db EXCEPT !.offers[o] = new], u, old, new, t)
          IN IF ~IsNull(r.error) THEN [error |-> r.error, db |-> db] ELSE r

-----------------------------------------------------------------------------
(* Sending an offer *)

PositiveSizes(rows) ==
  SelectSeq([i \in 1..Len(rows) |-> rows[i].space_allocated_m2], LAMBDA x : x > 0)

\* A variant that asks a price of hourly services only
ServiceLacksPrice_hourly_only(sv) ==
  sv.pricing_type = "hourly_rate" /\ IsNull(sv.price_per_hour_cents)

ServiceLacksPrice(sv) ==
  /\ sv.pricing_type # "ask_quote"
  /\ \/ sv.pricing_type = "hourly_rate" /\ IsNull(sv.price_per_hour_cents)
     \/ sv.pricing_type = "per_unit"
          /\ (IsNull(sv.price_per_unit_cents) \/ IsNull(sv.unit_type))
     \/ sv.pricing_type = "fixed" /\ IsNull(sv.fixed_price_cents)

\* validate_offer_for_send(p_offer_id): NULL, or the exception it raises
validate_offer_for_send(db, o) ==
  LET offer == db.offers[o]
      v_space_count == Len(PositiveSizes(offer.spaces))
      v_total_allocated == SumSeq(PositiveSizes(offer.spaces))
      v_total_requested == IF offer.exists THEN SumSeq(SpaceRequests) ELSE 0
  IN CASE v_space_count = 0 -> Some("At least one space must be allocated")
       [] v_total_allocated < v_total_requested ->
            Some("Total allocated space must meet or exceed requested space")
       [] \E i \in 1..Len(offer.services) : ServiceLacksPrice(offer.services[i]) ->
            Some("All services must have proper pricing set")
       [] ~(offer.exists /\ offer.total_cost_cents > 0) ->
            Some("Total cost must be set")
       [] OTHER -> NULL

\* the statements of send_booking_offer that follow the validation: the two
\* UPDATEs and the INSERT of the notification
send_booking_offer_writes(db, u, o, t) ==
  LET v_trader_id == db.inquiry.trader_id
      \* UPDATE booking_offers ... WHERE id = p_offer_id AND status = 'draft'
      r1 == IF db.offers[o].status = "draft"
            THEN UpdateOfferRow(db, u, o, "offer_sent", t)
            ELSE [error |-> NULL, db |-> db]
  IN IF ~IsNull(r1.error) THEN Fail(db, Val(r1.error))
     ELSE
       \* UPDATE booking_inquiries SET status = 'offer_sent'
       LET r2 == UpdateInquiryRow(r1.db, u, "offer_sent", t) IN
       IF ~IsNull(r2.error) THEN Fail(db, Val(r2.error))
       ELSE [result |-> "true",
             db |-> [r2.db EXCEPT !.notifications =
                       @ (+) Notify({v_trader_id}, "offer_sent")]]

send_booking_offer(db, u, o, t) ==
  IF ~IsAdministrator(u) THEN Fail(db, "Permission denied")
  ELSE
    LET invalid == validate_offer_for_send(db, o) IN
    IF ~IsNull(invalid) THEN Fail(db, Val(invalid))
    ELSE send_booking_offer_writes(db, u, o, t)

SendBookingOffer ==
  /\ MayNotify
  /\ \E u \in Users, o \in OfferIds :
       Called("send_booking_offer", u, o, "none",
              send_booking_offer(Tables, u, o, now))

-----------------------------------------------------------------------------
(* The trader's answer *)

\* What comparing the status column with the literal 'sent' can do: the
\* column of a migrated database is of the enum type, which has no such
\* value (the statement raises), a text column compares unequal
SentLiteralOutcomes == {"false", "invalid input value for enum booking_status"}

\* A variant that gives administrators the owner's rights
OwnsInquiryOfOffer_or_admin(db, u, o) ==
  db.offers[o].exists /\ (db.inquiry.trader_id = u \/ IsAdministrator(u))

\* EXISTS (... WHERE bo.id = p_offer_id AND bi.trader_id = auth.uid())
OwnsInquiryOfOffer(db, u, o) ==
  db.offers[o].exists /\ db.inquiry.trader_id = u

\* A variant whose UPDATE has no status condition
AwaitsResponse_any_status(offer) == offer.exists

\* WHERE id = p_offer_id AND status = 'sent'
AwaitsResponse(offer) == offer.status = "sent"

respond_to_offer(db, u, o, p_action, t, outcome) ==
  IF p_action \notin {"accept", "reject"}
  THEN Fail(db, "Invalid action. Must be either accept or reject")
  ELSE IF ~OwnsInquiryOfOffer(db, u, o)
  THEN Fail(db, "Permission denied")
  ELSE IF AwaitsResponse(db.offers[o])
  THEN
    LET r == UpdateOfferRow(db, u, o,
                            IF p_action = "accept" THEN "accepted" ELSE "rejected", t)
    IN IF ~IsNull(r.error) THEN Fail(db, Val(r.error))
       ELSE [result |-> "true",
             db |-> IF p_action = "accept"
                    THEN [r.db EXCEPT !.bookings =
                            Append(@, [offer_id |-> o, status |-> "confirmed"])]
                    ELSE r.db]
  ELSE Fail(db, outcome)

RespondToOffer ==
  \E u \in Users, o \in OfferIds, a \in Actions, outcome \in SentLiteralOutcomes :
    Called("respond_to_offer", u, o, a,
           respond_to_offer(Tables, u, o, a, now, outcome))

Tick ==
  /\ now < MaxTime
  /\ now' = now + 1
  /\ UNCHANGED <<inquiry, offers, bookings, notifications, last, inflight>>

-----------------------------------------------------------------------------

\* the database sessions of the clients, and one with no transaction open
Sessions == {"session1", "session2"}
NoRows == [spaces |-> <<>>, services |-> <<>>]
Idle == [op |-> "none", user |-> "none", offer |-> "none", p_valid_until |-> 0,
         input |-> DraftInput(0, <<>>, <<>>), pc |-> "none", seen |-> NoRows]

\* The inquiry as a trader's request reaches the administrators
InquiryRow(status) ==
  [status |-> status, valid_until |-> NULL, trader_id |-> OwnerTrader]

NoCall ==
  [op |-> "none", user |-> "none", offer |-> "none", arg |-> "none",
   result |-> "none"]

InitTables(statuses) ==
  /\ now = 0
  /\ inquiry \in {InquiryRow(st) : st \in statuses}
  /\ offers = [o \in OfferIds |-> NoOffer]
  /\ bookings = <<>>
  /\ notifications = EmptyBag
  /\ last = NoCall
  /\ inflight = [s \in Sessions |-> Idle]

-----------------------------------------------------------------------------
(* Calls of two sessions at once.  Every call is one transaction at READ     *)
(* COMMITTED: each statement sees what is committed when it starts, the      *)
(* writes of a transaction are seen by the others when it commits, and an    *)
(* UPDATE of a row waits for the transaction that has written the row.       *)

\* the inputs of the calls that run at once
ConcurrentInputs ==
  { DraftInput(9, <<SpaceRow(1, 3), SpaceRow(1, 3)>>, <<>>),
    DraftInput(9, <<SpaceRow(3, 9)>>, <<>>),
    DraftInput(9, <<SpaceRow(1, 3)>>, <<>>),
    DraftInput(9, <<SpaceRow(3, 9), WithoutSpaceId(SpaceRow(1, 3))>>, <<>>) }

RowsOf(offer) == [spaces |-> offer.spaces, services |-> offer.services]

\* A variant in which the UPDATE of the header takes no lock
RowLockHeld_never(o) == FALSE

\* the booking_offers row o is locked: update_booking_offer has run its
\* UPDATE ... WHERE id = p_offer_id in a transaction that has not ended
RowLockHeld(o) ==
  \E s \in Sessions :
    /\ inflight[s].op = "update_booking_offer"
    /\ inflight[s].offer = o
    /\ inflight[s].pc \in {"header", "rows"}

\* what a DELETE ... WHERE offer_id = p_offer_id leaves of the rows committed
\* when the transaction ends: it removed the rows it saw, not the rows
\* another transaction has committed since
Surviving(committed, seen) == IF committed = seen THEN <<>> ELSE committed

\* update_booking_offer is called and has made its administrator check
BeginUpdate(s) ==
  \E u \in Admins, o \in OfferIds, v \in ValidUntilInputs, d \in ConcurrentInputs :
    /\ inflight[s] = Idle
    /\ offers[o].exists
    /\ inflight' = [inflight EXCEPT ![s] =
                      [op |-> "update_booking_offer", user |-> u, offer |-> o,
                       p_valid_until |-> v, input |-> d, pc |-> "called",
                       seen |-> NoRows]]
    /\ UNCHANGED <<now, inquiry, offers, bookings, notifications, last>>

\* update_booking_offer, the UPDATE of the header: it waits while another
\* transaction holds the lock of the row, and holds it until its own end
LockHeader(s) ==
  /\ inflight[s].op = "update_booking_offer"
  /\ inflight[s].pc = "called"
  /\ ~RowLockHeld(inflight[s].offer)
  /\ inflight' = [inflight EXCEPT ![s].pc = "header"]
  /\ UNCHANGED <<now, inquiry, offers, bookings, notifications, last>>

\* update_booking_offer, the DELETEs and the loops of INSERTs; a line that
\* raises ends the transaction and rolls it back
ReplaceRows(s) ==
  LET tx == inflight[s]
      out == update_booking_offer(Tables, tx.user, tx.offer,
                                  tx.input.p_total_cost_cents, tx.p_valid_until,
                                  tx.input.p_spaces, tx.input.p_services)
  IN /\ tx.op = "update_booking_offer"
     /\ tx.pc = "header"
     /\ IF out.result # "true"
        THEN /\ Returned("update_booking_offer", tx.user, tx.offer, "none",
                         Fail(Tables, out.result))
             /\ inflight' = [inflight EXCEPT ![s] = Idle]
        ELSE /\ inflight' = [inflight EXCEPT
                               ![s].pc = "rows",
                               ![s].seen = RowsOf(offers[tx.offer])]
             /\ UNCHANGED <<now, inquiry, offers, bookings, notifications, last>>

\* update_booking_offer, the upsert of the summary and the commit
CommitUpdate(s) ==
  LET tx == inflight[s]
      d == tx.input
      old == offers[tx.offer]
      row == [old EXCEPT
                !.total_cost_cents = d.p_total_cost_cents,
                !.valid_until = tx.p_valid_until,
                !.spaces = Surviving(old.spaces, tx.seen.spaces) \o d.p_spaces,
                !.services = Surviving(old.services, tx.seen.services)
                               \o StoredServices(d.p_services),
                !.summary = {Summary(RowTotals(d.p_spaces) + RowTotals(d.p_services),
                                     Some(d.p_total_cost_cents),
                                     RowTotals(d.p_spaces), RowTotals(d.p_services))}]
  IN /\ tx.op = "update_booking_offer"
     /\ tx.pc = "rows"
     /\ Returned("update_booking_offer", tx.user, tx.offer, "none",
                 [result |-> "true", db |-> [Tables EXCEPT !.offers[tx.offer] = row]])
     /\ inflight' = [inflight EXCEPT ![s] = Idle]

\* send_booking_offer, first statements: the administrator check and
\* validate_offer_for_send, which reads the rows and locks nothing
BeginSend(s) ==
  \E u \in Admins, o \in OfferIds :
    LET invalid == validate_offer_for_send(Tables, o)
    IN /\ inflight[s] = Idle
       /\ offers[o].exists
       /\ IF ~IsNull(invalid)
          THEN /\ Returned("send_booking_offer", u, o, "none",
                           Fail(Tables, Val(invalid)))
               /\ UNCHANGED inflight
          ELSE /\ inflight' = [inflight EXCEPT ![s] =
                                 [op |-> "send_booking_offer", user |-> u,
                                  offer |-> o, p_valid_until |-> 0,
                                  input |-> Idle.input, pc |-> "validated",
                                  seen |-> RowsOf(offers[o])]]
               /\ UNCHANGED <<now, inquiry, offers, bookings, notifications, last>>

\* send_booking_offer, the UPDATE of the offer (which waits for the row
\* lock), the UPDATE of the inquiry, the notification and the commit
FinishSend(s) ==
  LET tx == inflight[s]
  IN /\ tx.op = "send_booking_offer"
     /\ tx.pc = "validated"
     /\ ~RowLockHeld(tx.offer)
     /\ BagCardinality(notifications) <= MaxNotifications
     /\ Returned("send_booking_offer", tx.user, tx.offer, "none",
                 send_booking_offer_writes(Tables, tx.user, tx.offer, now))
     /\ inflight' = [inflight EXCEPT ![s] = Idle]

\* an inquiry in offer_draft with a draft offer that an administrator saved
InitConcurrent ==
  /\ now = 0
  /\ inquiry = InquiryRow("offer_draft")
  /\ bookings = <<>>
  /\ notifications = EmptyBag
  /\ last = NoCall
  /\ inflight = [s \in Sessions |-> Idle]
  /\ \E o \in OfferIds, v \in ValidUntilInputs, d \in ConcurrentInputs :
       LET empty == [inquiry |-> inquiry, offers |-> [x \in OfferIds |-> NoOffer],
                     bookings |-> bookings, notifications |-> notifications]
           out == save_booking_offer(empty, "admin", o, d.p_total_cost_cents, v,
                                     d.p_spaces, d.p_services)
       IN out.result = o /\ offers = out.db.offers

\* respond_to_offer reads nothing that another call writes before its
\* UPDATE ... WHERE id = p_offer_id AND status = 'sent', which tests and sets
\* the status in one statement and holds the row until the commit: the call
\* takes place between the statements of the other sessions
NextConcurrent ==
  \/ RespondToOffer
  \/ \E s \in Sessions :
       \/ BeginUpdate(s)
       \/ LockHeader(s)
       \/ ReplaceRows(s)
       \/ CommitUpdate(s)
       \/ BeginSend(s)
       \/ FinishSend(s)

SpecConcurrent == InitConcurrent /\ [][NextConcurrent]_vars

(* The offer lifecycle: an inquiry that the administrators are working on *)

Init == InitTables({"under_review", "offer_draft"})

Next ==
  \/ Tick
  \/ SaveBookingOffer
  \/ CreateBookingOffer
  \/ SaveOfferAllocations
  \/ UpdateBookingOffer
  \/ SendBookingOffer
  \/ RespondToOffer
  \/ UpdateInquiryStatus

Spec == Init /\ [][Next]_vars

(* The status machine: direct updates of an inquiry in any status *)

InitStatus == InitTables(Statuses)

NextStatus ==
  \/ Tick
  \/ UpdateInquiryStatus

SpecStatus == InitStatus /\ [][NextStatus]_vars

-----------------------------------------------------------------------------
(* Properties.  A step is a call when the clock stands still; the call's    *)
(* operation, caller, arguments and result are in last', the tables before  *)
(* the call are the unprimed variables, the tables after it the primed      *)
(* ones.                                                                    *)

IsCall(op) == now' = now /\ last'.op = op

\* The transition table of the status machine, by role
AdministratorMay ==
  { <<"submitted", "under_review">>, <<"submitted", "cancelled">>,
    <<"under_review", "offer_draft">>, <<"under_review", "cancelled">>,
    <<"offer_draft", "offer_sent">>, <<"offer_draft", "cancelled">>,
    <<"changes_requested", "offer_draft">>, <<"changes_requested", "cancelled">>,
    <<"accepted", "confirmed">>, <<"accepted", "cancelled">>,
    <<"confirmed", "completed">>, <<"confirmed", "cancelled">>,
    <<"completed", "archived">> }

TraderMay ==
  { <<"draft", "submitted">>, <<"draft", "cancelled">>,
    <<"offer_sent", "accepted">>, <<"offer_sent", "rejected">>,
    <<"offer_sent", "changes_requested">> }

Listed(old, new, u) ==
  <<old, new>> \in (IF u \in Admins THEN AdministratorMay ELSE TraderMay)

InvalidTransition == "Invalid status transition"
PermissionDenied == "Permission denied"

\* The messages of the checks made before an offer is sent
ValidationErrors ==
  { "At least one space must be allocated",
    "Total allocated space must meet or exceed requested space",
    "All services must have proper pricing set",
    "Total cost must be set",
    "Cannot send offer: actual_offer_cents must be set" }

\* C1: a status change that the transition table does not list for the
\* inquiry's status and the caller's role, to a status other than the current
\* one, fails with the invalid-transition error and leaves the inquiry's
\* status and valid_until as they were.
C1_UnlistedTransitionRejected ==
  [][ (/\ IsCall("update_inquiry_status")
       /\ last'.arg # inquiry.status
       /\ ~Listed(inquiry.status, last'.arg, last'.user))
      => /\ last'.result = InvalidTransition
         /\ inquiry'.status = inquiry.status
         /\ inquiry'.valid_until = inquiry.valid_until ]_vars

\* C1 happens: an administrator was refused a move out of offer_sent on an
\* inquiry whose valid_until is set
C1_Witness ==
  /\ last.op = "update_inquiry_status"
  /\ last.user \in Admins
  /\ last.arg = "accepted"
  /\ last.result = InvalidTransition
  /\ inquiry.status = "offer_sent"
  /\ ~IsNull(inquiry.valid_until)

\* C2: a status update to the current status succeeds for every status and
\* role and is a no-op: status and valid_until are unchanged and no
\* notification is emitted.
C2_SameStatusIsNoOp ==
  [][ (IsCall("update_inquiry_status") /\ last'.arg = inquiry.status)
      => /\ last'.result = "ok"
         /\ inquiry'.status = inquiry.status
         /\ inquiry'.valid_until = inquiry.valid_until
         /\ notifications' = notifications ]_vars

\* C2 fails: a same-status update of an inquiry in offer_sent at a later
\* time moved valid_until and notified the trader again
C2_Witness ==
  /\ last.op = "update_inquiry_status"
  /\ last.arg = "offer_sent"
  /\ last.result = "ok"
  /\ inquiry.valid_until = Some(MaxTime + ValidDays)
  /\ CopiesIn([user_id |-> OwnerTrader, type |-> "offer_sent"], notifications) >= 3

-----------------------------------------------------------------------------
(* Sending *)

ActualIsNull(offer) ==
  offer.exists /\ \E os \in offer.summary : IsNull(os.actual_offer_cents)

SizesSum(rows) == SumSeq([i \in 1..Len(rows) |-> rows[i].space_allocated_m2])

TotalRequested == SumSeq(SpaceRequests)

\* What a send asks of the offer, the comparison of the sizes apart
SendableButForSize(offer) ==
  /\ offer.exists
  /\ offer.status = "draft"
  /\ \E os \in offer.summary : ~IsNull(os.actual_offer_cents)
  /\ \E i \in 1..Len(offer.spaces) : offer.spaces[i].space_allocated_m2 > 0
  /\ \A i \in 1..Len(offer.services) : ~ServiceLacksPrice(offer.services[i])
  /\ offer.total_cost_cents > 0

Sendable(offer) ==
  /\ SendableButForSize(offer)
  /\ \A i \in 1..Len(offer.spaces) : offer.spaces[i].space_allocated_m2 >= 0
  /\ SizesSum(offer.spaces) >= TotalRequested

\* C3 as stated: a send of an offer whose summary has no actual figure fails
\* with a validation error, whoever calls, and leaves the status of the offer
\* and of its inquiry as they were.
C3_NullActualValidationError ==
  [][ \A o \in OfferIds :
        (/\ IsCall("send_booking_offer")
         /\ last'.offer = o
         /\ ActualIsNull(offers[o]))
        => /\ last'.result \in ValidationErrors
           /\ offers'[o].status = offers[o].status
           /\ inquiry'.status = inquiry.status ]_vars

\* C3, amended: a send of an offer whose summary has no actual figure fails
\* for every caller, with a validation error when the caller is an
\* administrator and with the permission error otherwise, and leaves the
\* status of the offer and of its inquiry as they were.
C3_NullActualNeverSent ==
  [][ \A o \in OfferIds :
        (/\ IsCall("send_booking_offer")
         /\ last'.offer = o
         /\ ActualIsNull(offers[o]))
        => /\ last'.result \in (IF last'.user \in Admins
                               THEN ValidationErrors ELSE {PermissionDenied})
           /\ offers'[o].status = offers[o].status
           /\ inquiry'.status = inquiry.status ]_vars

\* C3 happens: an administrator's send of a draft that lacks nothing but the
\* actual figure was refused for that
C3_Witness ==
  /\ last.op = "send_booking_offer"
  /\ last.user \in Admins
  /\ last.result = "Cannot send offer: actual_offer_cents must be set"
  /\ ActualIsNull(offers[last.offer])
  /\ offers[last.offer].status = "draft"
  /\ SizesSum(offers[last.offer].spaces) >= TotalRequested
  /\ offers[last.offer].total_cost_cents > 0
  /\ inquiry.status = "offer_draft"

\* C4: with every other precondition of a send met (the inquiry in
\* offer_draft included), an administrator's send fails with a validation
\* error when the allocated sizes sum to less than the requested size, and
\* succeeds, leaving the offer in offer_sent, when they sum to it or more.
C4_SendDecidedBySize ==
  [][ \A o \in OfferIds :
        (/\ IsCall("send_booking_offer")
         /\ last'.offer = o
         /\ last'.user \in Admins
         /\ inquiry.status = "offer_draft"
         /\ SendableButForSize(offers[o]))
        => IF SizesSum(offers[o].spaces) < TotalRequested
           THEN last'.result \in ValidationErrors /\ offers'[o].status = "draft"
           ELSE last'.result = "true" /\ offers'[o].status = "offer_sent" ]_vars

\* C4 fails: an offer whose sizes sum to less than the request was sent
C4_Witness ==
  /\ last.op = "send_booking_offer"
  /\ last.result = "true"
  /\ offers[last.offer].status = "offer_sent"
  /\ SizesSum(offers[last.offer].spaces) < TotalRequested

\* C5: when an offer enters offer_sent, its valid_until is the time of the
\* send plus seven days.
C5_SentOfferValidSevenDays ==
  [][ \A o \in OfferIds :
        (offers[o].status # "offer_sent" /\ offers'[o].status = "offer_sent")
        => offers'[o].valid_until = now + ValidDays ]_vars

\* C5 fails: a sent offer still holds the valid_until of its draft
C5_Witness ==
  \E o \in OfferIds :
    /\ offers[o].status = "offer_sent"
    /\ offers[o].valid_until \in ValidUntilInputs
    /\ inquiry.valid_until \in {Some(t + ValidDays) : t \in 0..MaxTime}

\* C6: from an inquiry in under_review, an administrator's send of a draft
\* that meets every precondition succeeds and the inquiry becomes offer_sent.
C6_SendFromUnderReview ==
  [][ \A o \in OfferIds :
        (/\ IsCall("send_booking_offer")
         /\ last'.offer = o
         /\ last'.user \in Admins
         /\ inquiry.status = "under_review"
         /\ Sendable(offers[o]))
        => last'.result = "true" /\ inquiry'.status = "offer_sent" ]_vars

\* C6 fails: the send of such a draft was refused as an invalid transition
C6_Witness ==
  /\ last.op = "send_booking_offer"
  /\ last.user \in Admins
  /\ last.result = InvalidTransition
  /\ inquiry.status = "under_review"
  /\ Sendable(offers[last.offer])

TraderOfferSent == [user_id |-> OwnerTrader, type |-> "offer_sent"]

\* C7: a step that takes the inquiry into offer_sent adds exactly one
\* notification addressed to the owning trader.
C7_OneNotificationPerSend ==
  [][ (inquiry.status # "offer_sent" /\ inquiry'.status = "offer_sent")
      => CopiesIn(TraderOfferSent, notifications')
           = CopiesIn(TraderOfferSent, notifications) + 1 ]_vars

\* C7 fails: one send, and the trader holds four notifications of it
C7_Witness ==
  /\ last.op = "send_booking_offer"
  /\ last.result = "true"
  /\ CopiesIn(TraderOfferSent, notifications) = 4

-----------------------------------------------------------------------------
(* Responding *)

\* C8: an accept or reject by anyone but the trader who owns the inquiry
\* fails with the permission error and changes no offer, inquiry or booking,
\* whatever the status of the offer.
C8_NonOwnerRefused ==
  [][ (/\ IsCall("respond_to_offer")
       /\ last'.arg \in {"accept", "reject"}
       /\ last'.user # inquiry.trader_id)
      => /\ last'.result = PermissionDenied
         /\ offers' = offers
         /\ inquiry' = inquiry
         /\ bookings' = bookings ]_vars

\* C8 happens: an administrator's accept of a sent offer was refused
C8_Witness ==
  /\ last.op = "respond_to_offer"
  /\ last.user \in Admins
  /\ last.arg = "accept"
  /\ last.result = PermissionDenied
  /\ offers[last.offer].status = "offer_sent"

\* C9: an accept or reject by the owning trader of an offer that is not in
\* offer_sent changes neither the offer's status nor the inquiry's status and
\* creates no booking.
C9_NoEffectUnlessSent ==
  [][ \A o \in OfferIds :
        (/\ IsCall("respond_to_offer")
         /\ last'.offer = o
         /\ last'.arg \in {"accept", "reject"}
         /\ last'.user = inquiry.trader_id
         /\ offers[o].status # "offer_sent")
        => /\ offers'[o].status = offers[o].status
           /\ inquiry'.status = inquiry.status
           /\ bookings' = bookings ]_vars

\* C9 happens: the owner accepted a draft, and nothing came of it
C9_Witness ==
  /\ last.op = "respond_to_offer"
  /\ last.user = inquiry.trader_id
  /\ last.arg = "accept"
  /\ offers[last.offer].exists
  /\ offers[last.offer].status = "draft"
  /\ last.result \in SentLiteralOutcomes
  /\ bookings = <<>>

\* C10: when the owning trader accepts an offer in offer_sent, the call
\* succeeds, the offer becomes accepted and a confirmed booking of that offer
\* exists afterwards.
C10_AcceptCreatesBooking ==
  [][ \A o \in OfferIds :
        (/\ IsCall("respond_to_offer")
         /\ last'.offer = o
         /\ last'.arg = "accept"
         /\ last'.user = inquiry.trader_id
         /\ offers[o].status = "offer_sent")
        => /\ last'.result = "true"
           /\ offers'[o].status = "accepted"
           /\ \E i \in 1..Len(bookings') :
                bookings'[i] = [offer_id |-> o, status |-> "confirmed"] ]_vars

\* C10 fails: the owner accepted a sent offer; it is still offer_sent and
\* there is no booking
C10_Witness ==
  /\ last.op = "respond_to_offer"
  /\ last.user = inquiry.trader_id
  /\ last.arg = "accept"
  /\ last.result \in SentLiteralOutcomes
  /\ offers[last.offer].status = "offer_sent"
  /\ bookings = <<>>

-----------------------------------------------------------------------------
(* Drafting *)

\* C11: a creation, replacement or send called by a user who is not an
\* administrator fails with the permission error and changes no offer
\* header, allocation row or summary, nor the inquiry, nor the notifications.
C11_NonAdministratorRefused ==
  [][ (/\ now' = now
       /\ last'.op \in {"save_booking_offer", "update_booking_offer",
                        "send_booking_offer"}
       /\ last'.user \notin Admins)
      => /\ last'.result = PermissionDenied
         /\ offers' = offers
         /\ inquiry' = inquiry
         /\ notifications' = notifications
         /\ bookings' = bookings ]_vars

\* C11 happens: the owning trader tried to send a draft that an administrator
\* could have sent, and was refused
C11_Witness ==
  /\ last.op = "send_booking_offer"
  /\ last.user = OwnerTrader
  /\ last.result = PermissionDenied
  /\ inquiry.status = "offer_draft"
  /\ Sendable(offers[last.offer])

\* C12: a creation by an administrator leaves an offer in draft whose summary
\* has no actual figure.
C12_CreatedWithNullActual ==
  [][ \A o \in OfferIds :
        (/\ now' = now
         /\ last'.op \in {"save_booking_offer", "create_booking_offer"}
         /\ last'.offer = o
         /\ last'.user \in Admins)
        => offers'[o].status = "draft" /\ ActualIsNull(offers'[o]) ]_vars

\* C12 fails: save_booking_offer created a draft whose actual figure is the
\* headline figure of the call
C12_Witness ==
  /\ last.op = "save_booking_offer"
  /\ last.user \in Admins
  /\ offers[last.offer].status = "draft"
  /\ \E os \in offers[last.offer].summary :
       os.actual_offer_cents = Some(offers[last.offer].total_cost_cents)

\* What a call can change of an offer but its status
OfferContent(offer) ==
  [total_cost_cents |-> offer.total_cost_cents, valid_until |-> offer.valid_until,
   spaces |-> offer.spaces, services |-> offer.services, summary |-> offer.summary]

\* C13: a replacement of an offer that is no longer a draft fails (with an
\* invalid-state error, which is none of the other errors and no success)
\* and leaves header, allocation rows and summary as they were.
C13_SentOfferFrozen ==
  [][ \A o \in OfferIds :
        (/\ IsCall("update_booking_offer")
         /\ last'.offer = o
         /\ last'.user \in Admins
         /\ offers[o].exists
         /\ offers[o].status # "draft")
        => /\ last'.result # "true"
           /\ OfferContent(offers'[o]) = OfferContent(offers[o]) ]_vars

\* C13 fails: a sent offer whose lines were replaced
C13_Witness ==
  /\ last.op = "update_booking_offer"
  /\ last.result = "true"
  /\ offers[last.offer].status = "offer_sent"
  /\ offers[last.offer].spaces = <<>>

\* C14: replacing a draft twice in a row with the same input leaves the offer
\* with the same header, rows and summary, and gives the same result, as
\* replacing it once.
C14_ReplaceDraftIdempotent ==
  \A u \in Users, o \in OfferIds, v \in ValidUntilInputs, d \in DraftInputs :
    offers[o].exists =>
      LET once == update_booking_offer(Tables, u, o, d.p_total_cost_cents, v,
                                       d.p_spaces, d.p_services)
          twice == update_booking_offer(once.db, u, o, d.p_total_cost_cents, v,
                                        d.p_spaces, d.p_services)
      IN /\ twice.result = once.result
         /\ twice.db = once.db

C14_Witness ==
  /\ last.op = "update_booking_offer"
  /\ last.result = "true"
  /\ offers[last.offer].spaces # <<>>
  /\ offers[last.offer].services # <<>>
  /\ \E d \in DraftInputs :
       LET again == update_booking_offer(Tables, last.user, last.offer,
                                         d.p_total_cost_cents,
                                         offers[last.offer].valid_until,
                                         d.p_spaces, d.p_services)
       IN again.result = "true" /\ again.db.offers = offers

\* the offer as a successful save of input d leaves it
Reflects(offer, d) ==
  /\ offer.total_cost_cents = d.p_total_cost_cents
  /\ offer.spaces = d.p_spaces
  /\ offer.services = StoredServices(d.p_services)
  /\ offer.summary = {Summary(RowTotals(d.p_spaces) + RowTotals(d.p_services),
                              Some(d.p_total_cost_cents),
                              RowTotals(d.p_spaces), RowTotals(d.p_services))}

Succeeded(l) ==
  \/ l.op = "save_booking_offer" /\ l.result = l.offer
  \/ l.op = "update_booking_offer" /\ l.result = "true"

\* C15: a call of save_booking_offer or update_booking_offer that fails, at
\* whichever line, leaves every table as it was; one that succeeds leaves
\* header, rows and summary all of one and the same input.
C15_SaveAllOrNothing ==
  [][ (/\ now' = now
       /\ last'.op \in {"save_booking_offer", "update_booking_offer"})
      => IF Succeeded(last')
         THEN \E d \in DraftInputs : Reflects(offers'[last'.offer], d)
         ELSE /\ offers' = offers
              /\ inquiry' = inquiry
              /\ notifications' = notifications
              /\ bookings' = bookings ]_vars

C15_Witness ==
  /\ last.op = "update_booking_offer"
  /\ last.result = "space_id is required for space allocations"
  /\ offers[last.offer].exists
  /\ offers[last.offer].spaces # <<>>
  /\ offers[last.offer].spaces[1] # SpaceRow(3, 9)
  /\ offers[last.offer].total_cost_cents # 9

SavedAllocations(l) ==
  \/ Succeeded(l)
  \/ l.op = "save_offer_allocations" /\ l.result = l.offer

\* C16: after every successful save of the allocations of an offer, the
\* calculated price of its summary is space total plus services total, and
\* these are the sums of the line totals of the rows the offer then has.
C16_SummaryIsSumOfRows ==
  [][ (now' = now /\ SavedAllocations(last'))
      => \A os \in offers'[last'.offer].summary :
           /\ os.calculated_price_cents
                = os.space_total_cents + os.services_total_cents
           /\ os.space_total_cents = RowTotals(offers'[last'.offer].spaces)
           /\ os.services_total_cents = RowTotals(offers'[last'.offer].services) ]_vars

C16_Witness ==
  /\ last.op = "save_offer_allocations"
  /\ last.result = last.offer
  /\ RowTotals(offers[last.offer].spaces) > 0
  /\ \E os \in offers[last.offer].summary :
       os.space_total_cents = 0 /\ os.calculated_price_cents = 0

\* the total of a stored space line at list price for the days of the inquiry
AtListPrice(row) ==
  ListPriceTotal(row.price_per_m2_cents, row.space_allocated_m2,
                 DurationDays(InquiryDates.start_date, InquiryDates.end_date))

\* C17: after a successful save, a space line with manual pricing off has as
\* its line total size x list price x days of the inquiry (both end days
\* counted), and the space total of the summary is the sum of these.
C17_LineTotalAtListPrice ==
  [][ (now' = now /\ Succeeded(last'))
      => LET rows == offers'[last'.offer].spaces
         IN /\ \A i \in 1..Len(rows) :
                 ~rows[i].is_manual_price
                   => rows[i].offer_total_cents = AtListPrice(rows[i])
            /\ (\A i \in 1..Len(rows) : ~rows[i].is_manual_price)
                 => \A os \in offers'[last'.offer].summary :
                      os.space_total_cents
                        = SumSeq([i \in 1..Len(rows) |-> AtListPrice(rows[i])]) ]_vars

C17_Witness ==
  /\ Succeeded(last)
  /\ Len(offers[last.offer].spaces) = 1
  /\ LET row == offers[last.offer].spaces[1]
     IN /\ ~row.is_manual_price
        /\ row.space_allocated_m2 = 3
        /\ row.offer_total_cents = 9
        /\ AtListPrice(row) = 15000
        /\ \E os \in offers[last.offer].summary : os.space_total_cents = 9

\* the service lines that are priced, the ask_quote lines left out
PricedServices(rows) == SelectSeq(rows, LAMBDA sv : sv.pricing_type # "ask_quote")

\* C18: after a successful save, the services total and the calculated price
\* of the summary count no ask_quote line, whatever its fields hold.
C18_AskQuoteCountsNothing ==
  [][ (now' = now /\ Succeeded(last'))
      => \A os \in offers'[last'.offer].summary :
           /\ os.services_total_cents
                = RowTotals(PricedServices(offers'[last'.offer].services))
           /\ os.calculated_price_cents
                = os.space_total_cents
                  + RowTotals(PricedServices(offers'[last'.offer].services)) ]_vars

C18_Witness ==
  /\ Succeeded(last)
  /\ Len(offers[last.offer].services) = 1
  /\ offers[last.offer].services[1].pricing_type = "ask_quote"
  /\ offers[last.offer].services[1].offer_total_cents = 4
  /\ \E os \in offers[last.offer].summary :
       /\ os.services_total_cents = 4
       /\ os.calculated_price_cents = os.space_total_cents + 4

\* a service line without the price its pricing type asks for
LacksModePrice(sv) ==
  \/ sv.pricing_type = "hourly_rate" /\ IsNull(sv.price_per_hour_cents)
  \/ sv.pricing_type = "per_unit" /\ IsNull(sv.price_per_unit_cents)
  \/ sv.pricing_type = "per_unit" /\ IsNull(sv.unit_type)
  \/ sv.pricing_type = "fixed" /\ IsNull(sv.fixed_price_cents)

PricingError == "All services must have proper pricing set"

\* C19: a send of an offer with a service line that lacks the price of its
\* pricing type is refused and changes nothing; the pricing error is raised
\* only for such a line, never for an ask_quote line.
C19_UnpricedServiceBlocksSend ==
  [][ \A o \in OfferIds :
        (IsCall("send_booking_offer") /\ last'.offer = o)
        => LET rows == offers[o].services
               lacking == {i \in 1..Len(rows) : LacksModePrice(rows[i])}
           IN /\ lacking # {}
                   => /\ last'.result # "true"
                      /\ offers' = offers
                      /\ inquiry' = inquiry
                      /\ notifications' = notifications
              /\ last'.result = PricingError
                   => \E i \in lacking : rows[i].pricing_type # "ask_quote" ]_vars

C19_Witness ==
  /\ last.op = "send_booking_offer"
  /\ last.user \in Admins
  /\ last.result = PricingError
  /\ inquiry.status = "offer_draft"
  /\ offers[last.offer].status = "draft"
  /\ \E i \in 1..Len(offers[last.offer].services) :
       /\ offers[last.offer].services[i].pricing_type = "per_unit"
       /\ ~IsNull(offers[last.offer].services[i].price_per_unit_cents)
       /\ IsNull(offers[last.offer].services[i].unit_type)

------------------------------------------------------------------------------
(* Notifications of a status transition *)

\* the notifications the triggers insert when the inquiry moves to new_status
TransitionNotifications(new_status) ==
  LET new == [inquiry EXCEPT !.status = new_status]
  IN handle_status_notification(new)
       (+) handle_inquiry_status_notification(inquiry, new)

\* C20: when the insert of a notification fails during a listed status
\* transition, the transition still takes place and the caller sees no error.
C20_NotificationFailureTolerated ==
  [][ (/\ IsCall("update_inquiry_status")
       /\ Listed(inquiry.status, last'.arg, last'.user)
       /\ InsertFails(TransitionNotifications(last'.arg)))
      => /\ last'.result = "ok"
         /\ inquiry'.status = last'.arg ]_vars

\* C20 fails: the owner's move from offer_sent to accepted was undone by the
\* failed insert of the administrators' notification
C20_Witness ==
  /\ last.op = "update_inquiry_status"
  /\ last.user = inquiry.trader_id
  /\ last.arg = "accepted"
  /\ last.result = InvalidNotificationType
  /\ inquiry.status = "offer_sent"

------------------------------------------------------------------------------
(* Calls of two sessions at once *)

\* C21: whatever the interleaving of a send with a replacement of the same
\* offer, an offer that a send leaves in offer_sent holds the allocation rows
\* that this send validated.
C21_SentWhatWasValidated ==
  [][ \A s \in Sessions :
        (/\ inflight[s].op = "send_booking_offer"
         /\ inflight'[s] = Idle
         /\ offers'[inflight[s].offer].status = "offer_sent")
        => RowsOf(offers'[inflight[s].offer]) = inflight[s].seen ]_vars

\* C21 fails: the send has ended with success, the offer is in offer_sent and
\* holds one space of 1 m2 for a request of 2 m2, written by a replacement
\* that committed between the validation and the UPDATE of the send
C21_Witness ==
  /\ last.op = "send_booking_offer"
  /\ last.result = "true"
  /\ offers[last.offer].status = "offer_sent"
  /\ SizesSum(offers[last.offer].spaces) < TotalRequested
  /\ \A s \in Sessions : inflight[s] = Idle

\* rows and summary of every offer are those of one and the same input
OneCallsWrites(os) ==
  \A o \in OfferIds :
    os[o].exists => \E d \in ConcurrentInputs : Reflects(os[o], d)

\* C22: with two replacements of one offer under way at once, the rows and
\* the summary of every committed state are those of one call, and a
\* replacement that commits leaves exactly its own header, rows and summary.
C22_ReplacementsDoNotMix ==
  [][ /\ OneCallsWrites(offers)
      /\ OneCallsWrites(offers')
      /\ \A s \in Sessions :
           (/\ inflight[s].op = "update_booking_offer"
            /\ inflight[s].pc = "rows"
            /\ inflight'[s] = Idle)
           => Reflects(offers'[inflight[s].offer], inflight[s].input) ]_vars

\* C22 happens: a replacement has committed while the replacement of the
\* other session, called with another input, was waiting for the row
C22_Witness ==
  /\ last.op = "update_booking_offer"
  /\ last.result = "true"
  /\ \E s \in Sessions :
       /\ inflight[s].op = "update_booking_offer"
       /\ inflight[s].pc = "called"
       /\ inflight[s].offer = last.offer
       /\ ~Reflects(offers[last.offer], inflight[s].input)
       /\ Len(offers[last.offer].spaces) = 2

------------------------------------------------------------------------------
(* What the allocation lines may hold *)

NegativeIn(x) == \E v \in x : v < 0

\* a stored line with a negative size, price or total
NegativeSpace(row) ==
  \/ row.space_allocated_m2 < 0
  \/ row.price_per_m2_cents < 0
  \/ row.offer_total_cents < 0

NegativeService(row) ==
  \/ NegativeIn(row.price_per_hour_cents)
  \/ NegativeIn(row.price_per_unit_cents)
  \/ NegativeIn(row.fixed_price_cents)
  \/ row.offer_total_cents < 0

\* C23: save_booking_offer and update_booking_offer refuse every line with a
\* negative size, quantity or price and persist nothing of such a call: no
\* call leaves a line with a negative figure in the tables.
C23_NegativeFiguresRejected ==
  [][ \A o \in OfferIds :
        (/\ now' = now
         /\ last'.op \in {"save_booking_offer", "update_booking_offer"}
         /\ last'.offer = o)
        => /\ \A i \in 1..Len(offers'[o].spaces) : ~NegativeSpace(offers'[o].spaces[i])
           /\ \A i \in 1..Len(offers'[o].services) :
                ~NegativeService(offers'[o].services[i]) ]_vars

\* C23 fails: the call succeeded and stored a space line of -1 m2
C23_Witness ==
  /\ Succeeded(last)
  /\ \E i \in 1..Len(offers[last.offer].spaces) :
       offers[last.offer].spaces[i].space_allocated_m2 = -1

ReferentialErrors == {ForeignKeyViolation, "Space with ID does not exist"}

\* C24: save_booking_offer and update_booking_offer refuse, with a
\* referential error, every space line whose space does not exist or is of
\* another space type than the inquiry asks for: a call with such a line
\* fails, and no call leaves such a line in the tables.
C24_SpaceExistsAndMatchesType ==
  [][ \A o \in OfferIds :
        (/\ now' = now
         /\ last'.op \in {"save_booking_offer", "update_booking_offer"}
         /\ last'.offer = o
         /\ last'.user \in Admins)
        => \/ last'.result \in ReferentialErrors
           \/ \A i \in 1..Len(offers'[o].spaces) :
                \A id \in offers'[o].spaces[i].space_id :
                  id \in KnownSpaces /\ SpaceTypeOf[id] = RequestedSpaceType ]_vars

\* C24 fails: the call succeeded and stored a line for a space of another type
C24_Witness ==
  /\ Succeeded(last)
  /\ Len(offers[last.offer].spaces) = 1
  /\ offers[last.offer].spaces[1].space_id = Some("space2")
  /\ SpaceTypeOf["space2"] # RequestedSpaceType

------------------------------------------------------------------------------
(* The statuses of inquiry and offer *)

OfferCalls == {"send_booking_offer", "respond_to_offer"}

\* C25: when a send, an acceptance or a rejection of an offer changes the
\* status of the inquiry, the change is a move that the transition table
\* lists for the role of the caller.
C25_InquiryFollowsTable ==
  [][ (/\ now' = now
       /\ last'.op \in OfferCalls
       /\ inquiry'.status # inquiry.status)
      => Listed(inquiry.status, inquiry'.status, last'.user) ]_vars

\* C25 happens: the send of an administrator has moved the inquiry from
\* offer_draft to offer_sent
C25_Witness ==
  /\ last.op = "send_booking_offer"
  /\ last.user \in Admins
  /\ last.result = "true"
  /\ inquiry.status = "offer_sent"
  /\ offers[last.offer].status = "offer_sent"

\* C26: the status of an offer changes only by a move that the transition
\* table lists for the role of the caller.
C26_OfferFollowsTable ==
  [][ \A o \in OfferIds :
        (/\ now' = now
         /\ offers[o].exists
         /\ offers'[o].status # offers[o].status)
        => Listed(offers[o].status, offers'[o].status, last'.user) ]_vars

\* C26 fails: a send has moved the offer from draft to offer_sent, a pair the
\* table lists for no administrator
C26_Witness ==
  /\ last.op = "send_booking_offer"
  /\ last.result = "true"
  /\ offers[last.offer].status = "offer_sent"
  /\ ~Listed("draft", "offer_sent", last.user)

\* C27: at all times, the sizes allocated by an offer in offer_sent sum to
\* at least the sizes the inquiry asks for.
C27_SentOfferCoversRequest ==
  \A o \in OfferIds :
    (offers[o].exists /\ offers[o].status = "offer_sent")
      => SizesSum(offers[o].spaces) >= TotalRequested

\* C27 fails: the rows of an offer in offer_sent were replaced by one line of
\* 1 m2 for a request of 2 m2
C27_Witness ==
  /\ last.op = "update_booking_offer"
  /\ last.result = "true"
  /\ offers[last.offer].status = "offer_sent"
  /\ offers[last.offer].spaces = <<SpaceRow(1, 3)>>
  /\ TotalRequested = 2

------------------------------------------------------------------------------
(* Answers to an offer *)

BookingsOf(o) == {i \in 1..Len(bookings) : bookings[i].offer_id = o}

------------------------------------------------------------------------------
(* Sending again *)

\* C29: a send of an offer that is not a draft changes neither the status of
\* the offer nor the status of the inquiry nor the notifications, and does
\* not return success.
C29_SendOfNonDraftHasNoEffect ==
  [][ \A s \in Sessions :
        (/\ inflight[s].op = "send_booking_offer"
         /\ inflight'[s] = Idle
         /\ offers[inflight[s].offer].status # "draft")
        => /\ last'.result # "true"
           /\ offers'[inflight[s].offer].status = offers[inflight[s].offer].status
           /\ inquiry'.status = inquiry.status
           /\ notifications' = notifications ]_vars

\* C29 fails: an offer was sent twice; the second send returned true and
\* notified the trader again
C29_Witness ==
  /\ last.op = "send_booking_offer"
  /\ last.result = "true"
  /\ offers[last.offer].status = "offer_sent"
  /\ CopiesIn([user_id |-> OwnerTrader, type |-> "offer_sent"], notifications) > 4

------------------------------------------------------------------------------
(* Expiry *)

\* OfferSummary: isExpired
Expired(offer, t) == offer.exists /\ offer.valid_until < t

====
